---- MODULE Spec2Model ----
(***************************************************************************)
(* mantisRssSync: RSS feed -> GitHub issues -> project board.              *)
(* A model of RSSService.fetchRSSItems, IssueService.findNewIssues,        *)
(* IssueService.createNewIssues, GitHubService.addIssueToProject and       *)
(* RSSToIssueApp.run.                                                      *)
(*                                                                         *)
(* JavaScript values are records [k, s]: k is "undefined", "null" or       *)
(* "string", and s is the string's characters (a sequence of one-character *)
(* strings; empty for undefined and null).                                 *)
(***************************************************************************)
EXTENDS Integers, Sequences, FiniteSets, TLC

VARIABLES
    pc,             \* the position of the running async function
    feed,           \* the entries the feed parser returns (feed.items)
    store,          \* the repository's issues, oldest first
    board,          \* the issue numbers that are items of the project board
    config,         \* [dryRun, defaults |-> [status, milestone]]
    rssItems,       \* run(): const rssItems
    existingIssues, \* run(): const existingIssues
    newIssues,      \* run(): const newIssues / createNewIssues' parameter
    createdIssues,  \* createNewIssues: const createdIssues
    idx,            \* createNewIssues: the position of the for-of loop in newIssues
    log,            \* the calls made so far (gateway calls and sleeps), with their results
    errors,         \* the titles Logger.error was given by createNewIssues' catch
    dryLogged,      \* the titles logged as "[DRY RUN] Would create issue"
    returned,       \* what createNewIssues returned, once it has
    summary,        \* the summary run() logged, once it has
    exitCode,       \* the process's exit status: -1 while it runs
    history         \* the runs that ended before this one: [log, dryRun, exitCode] each

vars == <<pc, feed, store, board, config, rssItems, existingIssues, newIssues,
          createdIssues, idx, log, errors, dryLogged, returned, summary, exitCode,
          history>>

----------------------------------------------------------------------------
(* Bounds *)

MaxTitleLen == 3
MaxFeed == 2
MaxStore == 1
MaxItems == 2
MaxExisting == 2
MaxRuns == 2

----------------------------------------------------------------------------
(* JavaScript values *)

Undefined == [k |-> "undefined", s |-> <<>>]
Null == [k |-> "null", s |-> <<>>]
Str(s) == [k |-> "string", s |-> s]

\* ToBoolean of undefined, null or a string: only a non-empty string is truthy.
Truthy(v) == v.k = "string" /\ v.s # <<>>

\* a || b
Or(a, b) == IF Truthy(a) THEN a ELSE b

Chars == {" ", "a", "b"}
WhiteSpace == {" "}

RECURSIVE TrimStart(_)
TrimStart(s) ==
    IF s # <<>> /\ Head(s) \in WhiteSpace THEN TrimStart(Tail(s)) ELSE s

RECURSIVE TrimEnd(_)
TrimEnd(s) ==
    IF s # <<>> /\ s[Len(s)] \in WhiteSpace
    THEN TrimEnd(SubSeq(s, 1, Len(s) - 1))
    ELSE s

\* String.prototype.trim
Trim(s) == TrimEnd(TrimStart(s))

\* v?.trim(): undefined when v is undefined or null
OptTrim(v) == IF v.k = "string" THEN Str(Trim(v.s)) ELSE Undefined

SeqsUpTo(S, n) == UNION {[1..m -> S] : m \in 0..n}

NoTitle == Str(<<"N", "o", " ", "T", "i", "t", "l", "e">>)
EmptyString == Str(<<>>)

----------------------------------------------------------------------------
(* RSSService.fetchRSSItems: the normalisation of one entry *)

\* mutant: the title is not trimmed
NormalizeItemNoTrim(item) ==
    [title |-> Or(item.title, NoTitle),
     link  |-> Or(item.link, EmptyString),
     guid  |-> Or(Or(item.guid, item.link), item.title)]

NormalizeItem(item) ==
    [title |-> Or(OptTrim(item.title), NoTitle),
     link  |-> Or(item.link, EmptyString),
     guid  |-> Or(Or(item.guid, item.link), item.title)]

NormalizeAll(items) == [i \in 1..Len(items) |-> NormalizeItem(items[i])]

----------------------------------------------------------------------------
(* Config: read once from the environment *)

Todo == Str(<<"T", "o", "d", "o">>)
Done == Str(<<"D", "o", "n", "e">>)
V1 == Str(<<"v", "1">>)

LoadConfig(envStatus, envMilestone, envDryRun) ==
    [dryRun   |-> envDryRun,
     defaults |-> [status    |-> Or(envStatus, Todo),
                   milestone |-> Or(envMilestone, Null)]]

----------------------------------------------------------------------------
(* GitHubService *)

PerPage == 100
SleepMs == 1000

RECURSIVE Reverse(_)
Reverse(s) == IF s = <<>> THEN <<>> ELSE Append(Reverse(Tail(s)), Head(s))

\* mutant: per_page: 1, so only the newest issue is listed
ListForRepoNewestOnly(issues) ==
    SubSeq(Reverse(issues), 1, IF Len(issues) < 1 THEN Len(issues) ELSE 1)

\* issues.listForRepo({state: 'all', per_page: 100}): one page, newest first
ListForRepo(issues) ==
    LET newestFirst == Reverse(issues)
    IN  SubSeq(newestFirst, 1, IF Len(issues) < PerPage THEN Len(issues) ELSE PerPage)

\* issues.create: the new issue takes the next number and the item's title
NewIssue(issues, issueData) ==
    [number |-> Len(issues) + 1, title |-> issueData.title]

\* mutant: if (value !== null)
UpdatesFieldNonNull(value) == value.k = "string"

\* addIssueToProject: if (status) ... / if (milestone) ...
UpdatesField(value) == Truthy(value)

\* addIssueToProject's effect when it fails at failAt ("none": it does not fail)
AddIssueToProject(status, milestone, failAt) ==
    IF failAt = "none"
    THEN [res |-> "ok", added |-> TRUE,
          statusUpdated |-> UpdatesField(status),
          milestoneUpdated |-> UpdatesField(milestone)]
    ELSE [res |-> "fail", added |-> FALSE,
          statusUpdated |-> FALSE, milestoneUpdated |-> FALSE]

FailPoints == {"getProject", "addItemToProject"}

----------------------------------------------------------------------------
(* IssueService.findNewIssues *)

\* mutant: the existing titles are not trimmed
FindNewIssuesNoTrim(items, existing) ==
    IF Len(existing) = 0
    THEN items
    ELSE LET existingTitles == {existing[i].title.s : i \in 1..Len(existing)}
             IsNew(item) == Trim(item.title.s) \notin existingTitles
         IN  SelectSeq(items, IsNew)

\* the general algorithm: the Set of the trimmed existing titles, then the filter
FilterByTitle(items, existing) ==
    LET existingTitles == {Trim(existing[i].title.s) : i \in 1..Len(existing)}
        IsNew(item) == Trim(item.title.s) \notin existingTitles
    IN  SelectSeq(items, IsNew)

\* mutant: the items are not compared with the existing issues
FindNewIssuesAll(items, existing) == items

\* mutant: with no existing issues nothing is returned
FindNewIssuesNoneWhenEmpty(items, existing) ==
    IF Len(existing) = 0 THEN <<>> ELSE FilterByTitle(items, existing)

FindNewIssues(items, existing) ==
    IF Len(existing) = 0
    THEN items
    ELSE FilterByTitle(items, existing)

----------------------------------------------------------------------------
(* Log entries *)

FetchEntry(res) == [op |-> "fetchRSSItems", res |-> res]
ListEntry(res) == [op |-> "getExistingIssues", res |-> res]
CreateEntry(issueData) ==
    [op |-> "createIssue", item |-> issueData, res |-> "pending", number |-> 0]
\* mutant: status and milestone are passed in the wrong order
AttachEntrySwapped(number, status, milestone) ==
    [op |-> "addIssueToProject", number |-> number, status |-> milestone,
     milestone |-> status, res |-> "pending", added |-> FALSE,
     statusUpdated |-> FALSE, milestoneUpdated |-> FALSE]

\* this.github.addIssueToProject(issue.number, defaults.status, defaults.milestone)
AttachEntry(number, status, milestone) ==
    [op |-> "addIssueToProject", number |-> number, status |-> status,
     milestone |-> milestone, res |-> "pending", added |-> FALSE,
     statusUpdated |-> FALSE, milestoneUpdated |-> FALSE]
SleepEntry(ms) == [op |-> "sleep", ms |-> ms, res |-> "pending"]

Last(s) == s[Len(s)]
SetLast(s, e) == [s EXCEPT ![Len(s)] = e]

NotReturned == [done |-> FALSE, value |-> <<>>]
NoSummary ==
    [logged |-> FALSE, totalRSSItems |-> 0, existingIssues |-> 0,
     newIssuesFound |-> 0, issuesCreated |-> 0]

----------------------------------------------------------------------------
(* RSSToIssueApp.run *)

\* mutant: the catch block logs and does not exit, so the process ends with status 0
RunCatchNoExit ==
    /\ pc' = "exited"
    /\ exitCode' = 0

\* run()'s catch block: Logger.error, process.exit(1)
RunCatch ==
    /\ pc' = "exited"
    /\ exitCode' = 1

FetchRSSItemsOk ==
    /\ pc = "start"
    /\ rssItems' = NormalizeAll(feed)
    /\ log' = Append(log, FetchEntry("ok"))
    /\ pc' = "fetched"
    /\ UNCHANGED <<history, feed, store, board, config, existingIssues, newIssues,
                   createdIssues, idx, errors, dryLogged, returned, summary, exitCode>>

\* parseURL rejects: fetchRSSItems rethrows and run() catches
FetchRSSItemsFail ==
    /\ pc = "start"
    /\ log' = Append(log, FetchEntry("fail"))
    /\ RunCatch
    /\ UNCHANGED <<history, feed, store, board, config, rssItems, existingIssues, newIssues,
                   createdIssues, idx, errors, dryLogged, returned, summary>>

GetExistingIssuesOk ==
    /\ pc = "fetched"
    /\ existingIssues' = ListForRepo(store)
    /\ log' = Append(log, ListEntry("ok"))
    /\ pc' = "listed"
    /\ UNCHANGED <<history, feed, store, board, config, rssItems, newIssues,
                   createdIssues, idx, errors, dryLogged, returned, summary, exitCode>>

GetExistingIssuesFail ==
    /\ pc = "fetched"
    /\ log' = Append(log, ListEntry("fail"))
    /\ RunCatch
    /\ UNCHANGED <<history, feed, store, board, config, rssItems, existingIssues, newIssues,
                   createdIssues, idx, errors, dryLogged, returned, summary>>

FindNew ==
    /\ pc = "listed"
    /\ newIssues' = FindNewIssues(rssItems, existingIssues)
    /\ pc' = "found"
    /\ UNCHANGED <<history, feed, store, board, config, rssItems, existingIssues,
                   createdIssues, idx, log, errors, dryLogged, returned, summary, exitCode>>

----------------------------------------------------------------------------
(* IssueService.createNewIssues *)

\* mutant: the try/catch is around the loop, so the first failure ends the batch
ItemCatchAbort(issueData) ==
    /\ errors' = Append(errors, issueData.title)
    /\ idx' = Len(newIssues) + 1
    /\ pc' = "loop"
    /\ UNCHANGED exitCode

\* mutant: the catch block rethrows, and the error reaches run()'s catch
ItemCatchRethrow(issueData) ==
    /\ errors' = Append(errors, issueData.title)
    /\ idx' = idx
    /\ RunCatch

\* mutant: the dry-run flag is not looked at
DryRunIgnored(cfg) == FALSE

\* if (dryRun)
DryRun(cfg) == cfg.dryRun

\* mutant: the new issue goes to the front
PushCreatedFront(created, issue) == <<issue>> \o created

\* createdIssues.push(issue)
PushCreated(created, issue) == Append(created, issue)

\* the catch block of the loop body: Logger.error, then the next item
ItemCatch(issueData) ==
    /\ errors' = Append(errors, issueData.title)
    /\ idx' = idx + 1
    /\ pc' = "loop"
    /\ UNCHANGED exitCode

\* if (newIssues.length === 0) return []; else const createdIssues = []
CreateNewIssuesEnter ==
    /\ pc = "found"
    /\ IF Len(newIssues) = 0
       THEN /\ returned' = [done |-> TRUE, value |-> <<>>]
            /\ pc' = "returned"
            /\ UNCHANGED <<createdIssues, idx>>
       ELSE /\ createdIssues' = <<>>
            /\ idx' = 1
            /\ pc' = "loop"
            /\ UNCHANGED returned
    /\ UNCHANGED <<history, feed, store, board, config, rssItems, existingIssues, newIssues,
                   log, errors, dryLogged, summary, exitCode>>

\* the loop is over: return createdIssues
CreateNewIssuesReturn ==
    /\ pc = "loop"
    /\ idx > Len(newIssues)
    /\ returned' = [done |-> TRUE, value |-> createdIssues]
    /\ pc' = "returned"
    /\ UNCHANGED <<history, feed, store, board, config, rssItems, existingIssues, newIssues,
                   createdIssues, idx, log, errors, dryLogged, summary, exitCode>>

\* if (dryRun) { Logger.info(...); continue; }
DryRunItem ==
    /\ pc = "loop"
    /\ idx <= Len(newIssues)
    /\ DryRun(config)
    /\ dryLogged' = Append(dryLogged, newIssues[idx].title)
    /\ idx' = idx + 1
    /\ UNCHANGED <<history, pc, feed, store, board, config, rssItems, existingIssues, newIssues,
                   createdIssues, log, errors, returned, summary, exitCode>>

\* await this.github.createIssue(issueData): the call
CreateIssueCall ==
    /\ pc = "loop"
    /\ idx <= Len(newIssues)
    /\ ~DryRun(config)
    /\ log' = Append(log, CreateEntry(newIssues[idx]))
    /\ pc' = "awaitCreate"
    /\ UNCHANGED <<history, feed, store, board, config, rssItems, existingIssues, newIssues,
                   createdIssues, idx, errors, dryLogged, returned, summary, exitCode>>

\* mutant: addIssueToProject is called and not awaited, and the loop goes on
CreateIssueOkNoAwait ==
    /\ pc = "awaitCreate"
    /\ LET issue == NewIssue(store, newIssues[idx])
       IN  /\ store' = Append(store, issue)
           /\ createdIssues' = PushCreated(createdIssues, issue)
           /\ log' = Append(SetLast(log, [Last(log) EXCEPT !.res = "ok",
                                                           !.number = issue.number]),
                            AttachEntry(issue.number, config.defaults.status,
                                        config.defaults.milestone))
    /\ idx' = idx + 1
    /\ pc' = "loop"
    /\ UNCHANGED <<history, feed, board, config, rssItems, existingIssues, newIssues,
                   errors, dryLogged, returned, summary, exitCode>>

\* createIssue resolves: createdIssues.push(issue), then the call of addIssueToProject
CreateIssueOk ==
    /\ pc = "awaitCreate"
    /\ LET issue == NewIssue(store, newIssues[idx])
       IN  /\ store' = Append(store, issue)
           /\ createdIssues' = PushCreated(createdIssues, issue)
           /\ log' = Append(SetLast(log, [Last(log) EXCEPT !.res = "ok",
                                                           !.number = issue.number]),
                            AttachEntry(issue.number, config.defaults.status,
                                        config.defaults.milestone))
    /\ pc' = "awaitAttach"
    /\ UNCHANGED <<history, feed, board, config, rssItems, existingIssues, newIssues,
                   idx, errors, dryLogged, returned, summary, exitCode>>

\* createIssue rejects: the loop's catch
CreateIssueFail ==
    /\ pc = "awaitCreate"
    /\ log' = SetLast(log, [Last(log) EXCEPT !.res = "fail"])
    /\ ItemCatch(newIssues[idx])
    /\ UNCHANGED <<history, feed, store, board, config, rssItems, existingIssues, newIssues,
                   createdIssues, dryLogged, returned, summary>>

\* addIssueToProject resolves: the call of sleep(1000)
AddIssueToProjectOk ==
    /\ pc = "awaitAttach"
    /\ LET call == Last(log)
           out == AddIssueToProject(call.status, call.milestone, "none")
       IN  /\ board' = board \cup {call.number}
           /\ log' = Append(SetLast(log, [call EXCEPT
                                !.res = out.res, !.added = out.added,
                                !.statusUpdated = out.statusUpdated,
                                !.milestoneUpdated = out.milestoneUpdated]),
                            SleepEntry(SleepMs))
    /\ pc' = "awaitSleep"
    /\ UNCHANGED <<history, feed, store, config, rssItems, existingIssues, newIssues,
                   createdIssues, idx, errors, dryLogged, returned, summary, exitCode>>

\* addIssueToProject rethrows (getProject or addItemToProject failed): the loop's catch
AddIssueToProjectFail ==
    /\ pc = "awaitAttach"
    /\ \E failAt \in FailPoints :
         LET call == Last(log)
             out == AddIssueToProject(call.status, call.milestone, failAt)
         IN  log' = SetLast(log, [call EXCEPT
                                !.res = out.res, !.added = out.added,
                                !.statusUpdated = out.statusUpdated,
                                !.milestoneUpdated = out.milestoneUpdated])
    /\ ItemCatch(newIssues[idx])
    /\ UNCHANGED <<history, feed, store, board, config, rssItems, existingIssues, newIssues,
                   createdIssues, dryLogged, returned, summary>>

\* the timer fires: the next item
SleepDone ==
    /\ pc = "awaitSleep"
    /\ log' = SetLast(log, [Last(log) EXCEPT !.res = "ok"])
    /\ idx' = idx + 1
    /\ pc' = "loop"
    /\ UNCHANGED <<history, feed, store, board, config, rssItems, existingIssues, newIssues,
                   createdIssues, errors, dryLogged, returned, summary, exitCode>>

\* run(): Logger.info('Summary:', ...), and the process ends with status 0
LogSummary ==
    /\ pc = "returned"
    /\ summary' = [logged |-> TRUE,
                   totalRSSItems |-> Len(rssItems),
                   existingIssues |-> Len(existingIssues),
                   newIssuesFound |-> Len(newIssues),
                   issuesCreated |-> Len(returned.value)]
    /\ pc' = "done"
    /\ exitCode' = 0
    /\ UNCHANGED <<history, feed, store, board, config, rssItems, existingIssues, newIssues,
                   createdIssues, idx, log, errors, dryLogged, returned>>

CreateNewIssuesNext ==
    \/ CreateNewIssuesEnter
    \/ CreateNewIssuesReturn
    \/ DryRunItem
    \/ CreateIssueCall
    \/ CreateIssueOk
    \/ CreateIssueFail
    \/ AddIssueToProjectOk
    \/ AddIssueToProjectFail
    \/ SleepDone

Next ==
    \/ FetchRSSItemsOk
    \/ FetchRSSItemsFail
    \/ GetExistingIssuesOk
    \/ GetExistingIssuesFail
    \/ FindNew
    \/ CreateNewIssuesNext
    \/ LogSummary

----------------------------------------------------------------------------
(* Initial states *)

\* the feed entries of a run: title absent, plain, or with surrounding whitespace
RunEntries ==
    [title : {Undefined, Str(<<"a">>), Str(<<" ", "b">>)},
     link  : {Undefined},
     guid  : {Undefined}]

StoreTitles == {Str(<<"a">>), Str(<<"b", " ">>)}

Numbered(titles) == [i \in 1..Len(titles) |-> [number |-> i, title |-> titles[i]]]

\* process.env: a variable is unset, empty or set
Configs ==
    {LoadConfig(s, m, d) : s \in {Undefined, EmptyString, Done},
                           m \in {Undefined, EmptyString, V1},
                           d \in BOOLEAN}

InitLocals ==
    /\ board = {}
    /\ rssItems = <<>>
    /\ existingIssues = <<>>
    /\ newIssues = <<>>
    /\ createdIssues = <<>>
    /\ idx = 0
    /\ log = <<>>
    /\ errors = <<>>
    /\ dryLogged = <<>>
    /\ returned = NotReturned
    /\ summary = NoSummary
    /\ exitCode = -1
    /\ history = <<>>

\* a run of the application
Init ==
    /\ pc = "start"
    /\ feed \in SeqsUpTo(RunEntries, MaxFeed)
    /\ store \in {Numbered(t) : t \in SeqsUpTo(StoreTitles, MaxStore)}
    /\ config \in Configs
    /\ InitLocals

Spec == Init /\ [][Next]_vars

\* the event loop runs every continuation that is ready
FairSpec == Spec /\ WF_vars(Next)

\* a run has ended and the application is started again (app.run() in a new
\* process): the feed is the same, the repository and the board are as the
\* earlier runs left them, and the dry-run flag is read anew
StartNextRun ==
    /\ pc \in {"done", "exited"}
    /\ Len(history) + 1 < MaxRuns
    /\ history' = Append(history, [log |-> log, dryRun |-> config.dryRun,
                                   exitCode |-> exitCode])
    /\ \E d \in BOOLEAN : config' = [config EXCEPT !.dryRun = d]
    /\ pc' = "start"
    /\ rssItems' = <<>>
    /\ existingIssues' = <<>>
    /\ newIssues' = <<>>
    /\ createdIssues' = <<>>
    /\ idx' = 0
    /\ log' = <<>>
    /\ errors' = <<>>
    /\ dryLogged' = <<>>
    /\ returned' = NotReturned
    /\ summary' = NoSummary
    /\ exitCode' = -1
    /\ UNCHANGED <<feed, store, board>>

RerunNext == Next \/ StartNextRun

\* the runs of one deployment: one status and milestone, the repository empty or
\* holding one issue at first
RerunStores == {<<>>, Numbered(<<Str(<<"a">>)>>)}

InitRerun ==
    /\ pc = "start"
    /\ feed \in SeqsUpTo(RunEntries, MaxFeed)
    /\ store \in RerunStores
    /\ config \in {LoadConfig(Undefined, V1, d) : d \in BOOLEAN}
    /\ InitLocals

RerunSpec == InitRerun /\ [][RerunNext]_vars

\* fetchRSSItems on a feed of one entry, every field absent, empty or set
OptStrings(n) == {Undefined} \cup {Str(s) : s \in SeqsUpTo(Chars, n)}

AllEntries ==
    [title : OptStrings(MaxTitleLen),
     link  : {Undefined, EmptyString, Str(<<"a">>)},
     guid  : {Undefined, EmptyString, Str(<<"b">>)}]

InitNorm ==
    /\ pc = "start"
    /\ feed \in {<<e>> : e \in AllEntries}
    /\ store = <<>>
    /\ config = LoadConfig(Undefined, Undefined, FALSE)
    /\ InitLocals

NormNext == FetchRSSItemsOk \/ FetchRSSItemsFail

NormSpec == InitNorm /\ [][NormNext]_vars

\* findNewIssues called with any items and issues, trimmed or not
DiffTitles == {Str(<<"a">>), Str(<<" ", "a", " ">>), Str(<<"b", " ">>), Str(<<"a", " ", "b">>)}

DiffItems == [title : DiffTitles, link : {EmptyString}, guid : {Str(<<"a">>), Str(<<"b">>)}]

InitDiff ==
    /\ pc = "listed"
    /\ feed = <<>>
    /\ store = <<>>
    /\ config = LoadConfig(Undefined, Undefined, FALSE)
    /\ board = {}
    /\ rssItems \in SeqsUpTo(DiffItems, MaxFeed)
    /\ existingIssues \in {Numbered(t) : t \in SeqsUpTo(DiffTitles, MaxExisting)}
    /\ newIssues = <<>>
    /\ createdIssues = <<>>
    /\ idx = 0
    /\ log = <<>>
    /\ errors = <<>>
    /\ dryLogged = <<>>
    /\ returned = NotReturned
    /\ summary = NoSummary
    /\ exitCode = -1
    /\ history = <<>>

DiffSpec == InitDiff /\ [][FindNew]_vars

\* createNewIssues called with any items, defaults and dryRun
CallItems == [title : {Str(<<"a">>), Str(<<"b">>)}, link : {EmptyString}, guid : {Str(<<"a">>)}]

ArgValues == {Undefined, Null, EmptyString, Todo}

InitCreate ==
    /\ pc = "found"
    /\ feed = <<>>
    /\ store = <<>>
    /\ config \in [dryRun : BOOLEAN, defaults : [status : ArgValues, milestone : ArgValues]]
    /\ board = {}
    /\ rssItems = <<>>
    /\ existingIssues = <<>>
    /\ newIssues \in SeqsUpTo(CallItems, MaxItems)
    /\ createdIssues = <<>>
    /\ idx = 0
    /\ log = <<>>
    /\ errors = <<>>
    /\ dryLogged = <<>>
    /\ returned = NotReturned
    /\ summary = NoSummary
    /\ exitCode = -1
    /\ history = <<>>

CreateSpec == InitCreate /\ [][CreateNewIssuesNext]_vars

----------------------------------------------------------------------------
(* Properties *)

IsCreate(e) == e.op = "createIssue"
IsAttach(e) == e.op = "addIssueToProject"
IsGateway(e) == e.op \in {"getExistingIssues", "createIssue", "addIssueToProject"}

Creates == SelectSeq(log, IsCreate)
Attaches == SelectSeq(log, IsAttach)
GatewayCalls == SelectSeq(log, IsGateway)

CreateItems == [i \in 1..Len(Creates) |-> Creates[i].item]

IssueOf(c) == [number |-> c.number, title |-> c.item.title]

CreateOk(c) == c.res = "ok"
AttachedOk(c) ==
    /\ c.res = "ok"
    /\ \E j \in 1..Len(log) :
         IsAttach(log[j]) /\ log[j].number = c.number /\ log[j].res = "ok"

IssuesOf(cs) == [i \in 1..Len(cs) |-> IssueOf(cs[i])]

CreatePcs == {"found", "loop", "awaitCreate", "awaitAttach", "awaitSleep", "returned"}

\* C1: outside dry-run, createNewIssues never lets an error escape and attempts
\* createIssue exactly once for every item of newIssues, in order, whichever
\* create or attach calls fail: after every finished item the attempts made are
\* the items before the loop's position, and at the return they are newIssues.
C1_OneAttemptPerItem ==
    /\ pc \in CreatePcs
    /\ (pc = "loop" /\ ~config.dryRun) =>
           CreateItems = SubSeq(newIssues, 1, idx - 1)
    /\ (returned.done /\ ~config.dryRun) => CreateItems = newIssues

\* a batch of two whose first item failed, and the second was still attempted
C1_Witness ==
    /\ returned.done
    /\ ~config.dryRun
    /\ Len(newIssues) = 2
    /\ Len(Creates) = 2
    /\ Creates[1].res = "fail"
    /\ Len(errors) >= 1

\* C2 as stated: the returned sequence holds exactly the results of the items
\* whose create call and whose attach call both succeeded.
C2_OmitsAttachFailures ==
    returned.done => returned.value = IssuesOf(SelectSeq(Creates, AttachedOk))

\* C2 as amended: the returned sequence holds, in processing order, exactly the
\* results of the items whose createIssue call succeeded, whether or not the
\* attach that followed failed; an item whose create call failed is omitted.
C2_ReturnsCreated ==
    returned.done => returned.value = IssuesOf(SelectSeq(Creates, CreateOk))

\* two issues were created, the attach of one of them failed, and both are returned
C2_Witness ==
    /\ returned.done
    /\ Len(returned.value) = 2
    /\ \E j \in 1..Len(log) : IsAttach(log[j]) /\ log[j].res = "fail"

\* C3: when dryRun is true or newIssues is empty, createNewIssues makes no
\* createIssue and no addIssueToProject call and returns the empty sequence;
\* a gateway call is only ever made with dryRun false and newIssues non-empty.
C3_DryRunOrEmptyMakesNoCalls ==
    /\ (config.dryRun \/ newIssues = <<>>) =>
           /\ Creates = <<>>
           /\ Attaches = <<>>
           /\ store = <<>>
           /\ board = {}
           /\ returned.done => returned.value = <<>>
    /\ (Creates # <<>> \/ Attaches # <<>>) => (~config.dryRun /\ newIssues # <<>>)

\* a dry run over two items has returned
C3_Witness ==
    /\ returned.done
    /\ config.dryRun
    /\ Len(newIssues) = 2
    /\ Len(dryLogged) = 2
    /\ returned.value = <<>>

\* t is s without its leading and trailing whitespace
IsTrimOf(t, s) ==
    \E i \in 1..(Len(s) + 1), j \in 0..Len(s) :
        /\ t = SubSeq(s, i, j)
        /\ \A k \in 1..Len(s) : (k < i \/ k > j) => s[k] \in WhiteSpace
        /\ t # <<>> => (t[1] \notin WhiteSpace /\ t[Len(t)] \notin WhiteSpace)

SameTrimmedTitle(a, b) ==
    \E t \in SeqsUpTo(Chars, Len(a.s)) : IsTrimOf(t, a.s) /\ IsTrimOf(t, b.s)

\* the items whose trimmed title is the trimmed title of no existing issue
TitleFilter(items, existing) ==
    LET Absent(item) ==
            \A j \in 1..Len(existing) : ~SameTrimmedTitle(item.title, existing[j].title)
    IN  SelectSeq(items, Absent)

\* C4: findNewIssues returns exactly the feed items whose trimmed title equals
\* the trimmed title of no existing issue, in feed order, every occurrence kept.
C4_FindNewIsTitleFilter ==
    pc = "found" => newIssues = TitleFilter(rssItems, existingIssues)

\* ' a ' is excluded by an existing 'a', and the item after it is kept
C4_Witness ==
    /\ pc = "found"
    /\ Len(rssItems) = 2
    /\ rssItems[1].title = Str(<<" ", "a", " ">>)
    /\ rssItems[2].title = Str(<<"a", " ", "b">>)
    /\ Len(existingIssues) = 2
    /\ existingIssues[1].title = Str(<<"a">>)
    /\ newIssues = <<rssItems[2]>>

Failed(op) == \E i \in 1..Len(log) : log[i].op = op /\ log[i].res = "fail"
Called(op) == \E i \in 1..Len(log) : log[i].op = op

\* C5: when the feed fetch or the listing of the existing issues fails, no
\* createIssue and no addIssueToProject call is made, the summary is not logged
\* and the process has exited with status 1; after a failed fetch the listing
\* is not called either.
C5_FatalFailures ==
    /\ (Failed("fetchRSSItems") \/ Failed("getExistingIssues")) =>
           /\ Creates = <<>>
           /\ Attaches = <<>>
           /\ ~summary.logged
           /\ pc = "exited"
           /\ exitCode = 1
    /\ Failed("fetchRSSItems") => ~Called("getExistingIssues")

\* the listing failed in a run, not a dry run, whose feed had items to create
C5_Witness ==
    /\ Failed("getExistingIssues")
    /\ ~config.dryRun
    /\ Len(rssItems) = 2
    /\ store = <<>>
    /\ exitCode = 1

BothSucceeded == \E i \in 1..Len(log) : log[i] = ListEntry("ok")

\* C6: once the fetch and the listing have both succeeded, the run reaches the
\* logged summary and ends with status 0, and never exits with a non-zero
\* status, whatever per-item failures happen and in dry-run mode too.
C6_SummaryAlwaysLogged ==
    /\ BothSucceeded ~> (summary.logged /\ exitCode = 0)
    /\ [](BothSucceeded => exitCode # 1)
    /\ [](summary.logged =>
            /\ summary.totalRSSItems = Len(rssItems)
            /\ summary.existingIssues = Len(existingIssues)
            /\ summary.newIssuesFound = Len(newIssues)
            /\ summary.issuesCreated = Len(returned.value))

\* the summary is logged with fewer issues created than new items found
C6_Witness ==
    /\ summary.logged
    /\ exitCode = 0
    /\ ~config.dryRun
    /\ Len(errors) >= 1
    /\ summary.issuesCreated < summary.newIssuesFound

\* C7: the normalized title is a non-empty string: the trimmed source title when
\* that is non-empty, and 'No Title' when the title is absent, empty or blank.
C7_TitleNeverEmpty ==
    pc = "fetched" =>
        /\ Len(rssItems) = Len(feed)
        /\ \A i \in 1..Len(feed) :
             LET raw == feed[i].title
                 t == rssItems[i].title
             IN  /\ t.k = "string"
                 /\ t.s # <<>>
                 /\ IF raw.k = "string" /\ ~IsTrimOf(<<>>, raw.s)
                    THEN IsTrimOf(t.s, raw.s)
                    ELSE t = NoTitle

\* a blank title became 'No Title'
C7_Witness ==
    /\ pc = "fetched"
    /\ feed[1].title = Str(<<" ", " ">>)
    /\ rssItems[1].title = NoTitle

\* C8 as stated: the normalized guid is a string, the native guid, else the link,
\* else the item's own normalized title.
C8_GuidFallsBackToTitle ==
    pc = "fetched" =>
        \A i \in 1..Len(feed) :
            LET raw == feed[i]
                item == rssItems[i]
            IN  /\ item.guid.k = "string"
                /\ Truthy(raw.guid) => item.guid = raw.guid
                /\ (~Truthy(raw.guid) /\ Truthy(raw.link)) => item.guid = raw.link
                /\ (~Truthy(raw.guid) /\ ~Truthy(raw.link)) => item.guid = item.title

NonNull(v) == v.k = "string"
NonEmpty(v) == v.k = "string" /\ Len(v.s) > 0

\* C9 as stated: a successful addIssueToProject adds the item, updates the status
\* iff the status argument is non-null and the milestone iff the milestone
\* argument is non-null, the empty string included.
C9_UpdatesIffNonNull ==
    \A i \in 1..Len(log) :
        (IsAttach(log[i]) /\ log[i].res = "ok") =>
            /\ log[i].added
            /\ log[i].statusUpdated <=> NonNull(log[i].status)
            /\ log[i].milestoneUpdated <=> NonNull(log[i].milestone)

\* C9 as amended: a successful addIssueToProject adds the item to the board and
\* updates the status iff the status argument is a non-empty string, and the
\* milestone iff the milestone argument is a non-empty string (null, undefined
\* and the empty string are all skipped); a call that fails at getProject or
\* addItemToProject adds nothing and updates neither field.
C9_UpdatesIffTruthy ==
    \A i \in 1..Len(log) :
        IsAttach(log[i]) =>
            /\ log[i].res = "ok" =>
                 /\ log[i].added
                 /\ log[i].number \in board
                 /\ log[i].statusUpdated <=> NonEmpty(log[i].status)
                 /\ log[i].milestoneUpdated <=> NonEmpty(log[i].milestone)
            /\ log[i].res # "ok" =>
                 /\ ~log[i].added
                 /\ ~log[i].statusUpdated
                 /\ ~log[i].milestoneUpdated

\* a successful attach with an empty status and a set milestone
C9_Witness ==
    \E i \in 1..Len(log) :
        /\ IsAttach(log[i])
        /\ log[i].res = "ok"
        /\ log[i].status = EmptyString
        /\ ~log[i].statusUpdated
        /\ log[i].milestone = Todo
        /\ log[i].milestoneUpdated

\* C10: every createIssue call that succeeded is followed at once, before any
\* other gateway call, by one addIssueToProject call with the number of the
\* issue just created and the run's defaults.status and defaults.milestone;
\* addIssueToProject is called nowhere else, so never after a failed create.
C10_AttachFollowsCreate ==
    LET g == GatewayCalls
    IN  \A k \in 1..Len(g) :
            /\ (IsCreate(g[k]) /\ g[k].res = "ok") =>
                 /\ k < Len(g)
                 /\ IsAttach(g[k + 1])
                 /\ g[k + 1].number = g[k].number
                 /\ \E j \in 1..Len(createdIssues) :
                        createdIssues[j] = IssueOf(g[k])
                 /\ g[k + 1].status = config.defaults.status
                 /\ g[k + 1].milestone = config.defaults.milestone
            /\ IsAttach(g[k]) =>
                 /\ k > 1
                 /\ IsCreate(g[k - 1])
                 /\ g[k - 1].res = "ok"

\* a failed create, then a create that succeeded and its attach, all returned
C10_Witness ==
    /\ returned.done
    /\ Len(Creates) = 2
    /\ Creates[1].res = "fail"
    /\ Creates[2].res = "ok"
    /\ Len(Attaches) = 1
    /\ Attaches[1].number = Creates[2].number
    /\ config.defaults.status # config.defaults.milestone

Pending(e) == e.res = "pending"

\* C11: the calls of createNewIssues are strictly sequential: only the newest
\* call can be in flight, so a call starts only when every earlier create,
\* attach and sleep has completed; the function is suspended exactly while one
\* is in flight; and the createIssue calls are made in the order of newIssues.
C11_OneCallInFlight ==
    /\ \A k \in 1..Len(log) : Pending(log[k]) => k = Len(log)
    /\ (log # <<>> /\ Pending(Last(log))) <=>
           pc \in {"awaitCreate", "awaitAttach", "awaitSleep"}
    /\ Len(Creates) <= Len(newIssues)
    /\ CreateItems = SubSeq(newIssues, 1, Len(Creates))
    /\ pc = "awaitCreate" => IsCreate(Last(log)) /\ Len(Creates) = idx
    /\ pc = "awaitAttach" => IsAttach(Last(log))

\* the second item's create is in flight after the first item's create and attach ended
C11_Witness ==
    /\ pc = "awaitCreate"
    /\ Len(Creates) = 2
    /\ Len(Attaches) = 1
    /\ Attaches[1].res # "pending"
    /\ Pending(Last(log))

IsSleep(e) == e.op = "sleep"

\* C12 as stated: between any two createIssue calls a sleep was performed: after
\* an item's create and attach attempt, failed or not, the fixed delay has
\* elapsed before the next item's createIssue call starts.
C12_DelayBetweenCreates ==
    \A a, b \in 1..Len(log) :
        (a < b /\ IsCreate(log[a]) /\ IsCreate(log[b])) =>
            \E k \in (a + 1)..(b - 1) :
                IsSleep(log[k]) /\ log[k].ms = SleepMs /\ log[k].res = "ok"

\* C13: with no existing issues the short-circuit of findNewIssues returns what
\* the general algorithm returns against an empty set of titles: every feed
\* item, unchanged and in feed order.
C13_ShortCircuitIsFilter ==
    (pc = "found" /\ existingIssues = <<>>) =>
        /\ newIssues = FilterByTitle(rssItems, <<>>)
        /\ newIssues = rssItems

\* two items, one with an untrimmed title, returned unchanged
C13_Witness ==
    /\ pc = "found"
    /\ existingIssues = <<>>
    /\ Len(rssItems) = 2
    /\ rssItems[1].title = Str(<<" ", "a", " ">>)
    /\ newIssues = rssItems

\* the runs so far, the current one last
AllRuns ==
    Append(history, [log |-> log, dryRun |-> config.dryRun, exitCode |-> exitCode])

CreatesOf(run) == SelectSeq(run.log, IsCreate)
AttachesOf(run) == SelectSeq(run.log, IsAttach)

\* C14: with the same feed and the listing returning the whole repository, a
\* later run calls createIssue for no title an earlier run created an issue
\* for; and after an earlier run that was not a dry run and ended with the
\* summary, every item a later run attempts is one whose createIssue failed in
\* that earlier run.
C14_RerunCreatesNothingTwice ==
    \A r, q \in 1..Len(AllRuns) :
        r < q =>
            LET earlier == CreatesOf(AllRuns[r])
                later == CreatesOf(AllRuns[q])
            IN  \A j \in 1..Len(later) :
                    /\ \A i \in 1..Len(earlier) :
                           earlier[i].res = "ok" =>
                               earlier[i].item.title # later[j].item.title
                    /\ (~AllRuns[r].dryRun /\ AllRuns[r].exitCode = 0) =>
                           \E i \in 1..Len(earlier) :
                               /\ earlier[i].item = later[j].item
                               /\ earlier[i].res = "fail"

\* the first run created one item and failed to create the other; the second
\* run has ended and attempted only the one that had failed
C14_Witness ==
    /\ Len(history) = 1
    /\ ~history[1].dryRun
    /\ history[1].exitCode = 0
    /\ Len(CreatesOf(history[1])) = 2
    /\ CreatesOf(history[1])[1].res = "ok"
    /\ CreatesOf(history[1])[2].res = "fail"
    /\ pc = "done"
    /\ ~config.dryRun
    /\ Len(Creates) = 1
    /\ Creates[1].item = CreatesOf(history[1])[2].item

\* C15: an issue whose addIssueToProject failed is never on the board, and no
\* later run with the same feed calls createIssue for its title or
\* addIssueToProject for its number: the attach is never tried again.
C15_AttachNeverRetried ==
    \A r \in 1..Len(AllRuns) :
        LET failedIn == AttachesOf(AllRuns[r])
        IN  \A i \in 1..Len(failedIn) :
                failedIn[i].res = "fail" =>
                    LET n == failedIn[i].number
                    IN  /\ n \notin board
                        /\ n \in 1..Len(store)
                        /\ \A q \in (r + 1)..Len(AllRuns) :
                               /\ \A j \in 1..Len(AttachesOf(AllRuns[q])) :
                                      AttachesOf(AllRuns[q])[j].number # n
                               /\ \A j \in 1..Len(CreatesOf(AllRuns[q])) :
                                      CreatesOf(AllRuns[q])[j].item.title # store[n].title

\* the first run created an issue and failed to attach it; the second run, not a
\* dry run, listed it, found nothing new and has ended
C15_Witness ==
    /\ Len(history) = 1
    /\ \E i \in 1..Len(history[1].log) :
           /\ IsAttach(history[1].log[i])
           /\ history[1].log[i].res = "fail"
           /\ history[1].log[i].number \notin board
           /\ \E j \in 1..Len(existingIssues) :
                  existingIssues[j].number = history[1].log[i].number
    /\ pc = "done"
    /\ ~config.dryRun
    /\ Len(rssItems) >= 1
    /\ newIssues = <<>>
    /\ log = <<FetchEntry("ok"), ListEntry("ok")>>

====
